---- MODULE Spec2Model ----
(***************************************************************************)
(* Model of createDbSchemaTrees (packages/duckdb/src/schemaTree.ts): the   *)
(* grouping of a flat list of table descriptors into a tree of database,   *)
(* schema, table and column nodes.                                         *)
(*                                                                         *)
(* Strings are TLA+ strings and template literals are string               *)
(* concatenation (\o).  An absent `database` is the empty tuple <<>>, a    *)
(* present one the one-element tuple <<name>>.  A JavaScript Map is the    *)
(* sequence of its entries [key, value] in insertion order.                *)
(*                                                                         *)
(* pc is "loop" while the call runs, "done" once it has returned `result`  *)
(* and "threw" once it has ended with the exception `error`.  throwsOn is  *)
(* the set of type strings on which the type classifier throws; it is a    *)
(* property of the classifier and never changes.                           *)
(*                                                                         *)
(* tables is the caller's array of descriptors as it is now, given its     *)
(* value when the call was made.  childrenArray[n] is the identity of the  *)
(* array that is the `children` of the table node made from descriptor n:  *)
(* [kind |-> "new", of |-> n] is an array made by the call,                *)
(* [kind |-> "columns", of |-> n] the `columns` array of descriptor n.     *)
(* pc is "changed" once the caller has changed the returned tree.          *)
(*                                                                         *)
(* calls and heap describe several calls of the function in progress at    *)
(* once: calls[c] holds the arguments and locals of call c, its `map` the  *)
(* identity of the Map object it groups into, and heap[m] the entries of   *)
(* Map object m.                                                           *)
(*                                                                         *)
(* store, applied and returned describe a svelte room store to which slice *)
(* factories are applied (svelte-room-store), and roomStore, isLoading,    *)
(* errorText, queryResult, runQuery, disabled, dirty and mounted the       *)
(* component App.svelte of the svelte-minimal example; both are described  *)
(* where their specifications are defined.                                 *)
(***************************************************************************)
EXTENDS Integers, Sequences, FiniteSets, TLC

VARIABLES tables, pc, i, databaseMap, result, throwsOn, error, given, childrenArray,
          calls, heap,
          store, applied, returned,
          roomStore, isLoading, errorText, queryResult, runQuery, disabled, dirty,
          mounted

\* one call of createDbSchemaTrees and the classifier it uses
callVars ==
    <<tables, pc, i, databaseMap, result, throwsOn, error, given, childrenArray>>

\* several calls in progress at once
callsVars == <<calls, heap>>

\* a svelte room store and the slice factories applied to it
sliceVars == <<store, applied, returned>>

\* the component App.svelte of the svelte-minimal example
appVars ==
    <<roomStore, isLoading, errorText, queryResult, runQuery, disabled, dirty, mounted>>

vars == <<callVars, callsVars, sliceVars, appVars>>

(***************************************************************************)
(* Bounds of the model.                                                    *)
(***************************************************************************)
\* longest input whose descriptors vary in database, schema and table name
MaxTables == 3
\* longest input whose descriptors vary in their column lists
MaxColTables == 2
\* longest column list of a descriptor
MaxCols == 2
\* number of calls in progress at once
MaxCalls == 3

(***************************************************************************)
(* Inputs: the DataTable descriptors a caller may pass.                    *)
(***************************************************************************)
Undefined == <<>>

SeqsUpTo(S, n) == UNION {[1..k -> S] : k \in 0..n}

Columns == {[name |-> "a", type |-> "INTEGER"], [name |-> "b", type |-> "VARCHAR"]}

\* descriptors that differ in where they are grouped: database absent or
\* differing in case only, schema differing in trailing whitespace only
GroupingDescriptors ==
    [database : {Undefined, <<"db">>, <<"DB">>},
     schema : {"s", "s "},
     tableName : {"t", "u"},
     columns : {<<[name |-> "a", type |-> "INTEGER"]>>}]

\* descriptors that differ in their column lists (repeated names included)
ColumnDescriptors ==
    [database : {Undefined},
     schema : {"s"},
     tableName : {"t", "u"},
     columns : SeqsUpTo(Columns, MaxCols)]

\* descriptors whose schema, table name or column name is the empty string
EmptyNameDescriptors ==
    [database : {Undefined},
     schema : {"", "s"},
     tableName : {"", "t"},
     columns : {<<[name |-> "", type |-> "INTEGER"]>>, <<[name |-> "a", type |-> "INTEGER"]>>}]

\* descriptors whose database is absent, the literal "default" or the empty string
DefaultingDescriptors ==
    [database : {Undefined, <<"default">>, <<"">>},
     schema : {"s"},
     tableName : {"t", "u"},
     columns : {<<[name |-> "a", type |-> "INTEGER"]>>}]

Inputs ==
    SeqsUpTo(GroupingDescriptors, MaxTables) \cup SeqsUpTo(ColumnDescriptors, MaxColTables)
        \cup SeqsUpTo(EmptyNameDescriptors, MaxColTables)
        \cup SeqsUpTo(DefaultingDescriptors, MaxTables)

\* descriptors that differ in the types of their columns: two columns of one
\* type, columns of different types, a type the classifier does not know
TypedColumns ==
    Columns \cup {[name |-> "b", type |-> "INTEGER"], [name |-> "a", type |-> "BLOB"]}

TypedDescriptors ==
    [database : {Undefined},
     schema : {"s"},
     tableName : {"t"},
     columns : SeqsUpTo(TypedColumns, MaxCols)]

\* none, one or two such descriptors
TypedInputs == UNION {[1..k -> TypedDescriptors] : k \in {0, 1, 2}}

\* the inputs of calls in progress at once
CallDescriptors ==
    [database : {Undefined, <<"db">>},
     schema : {"s"},
     tableName : {"t"},
     columns : {<<[name |-> "a", type |-> "INTEGER"]>>}]

CallInputs == UNION {[1..k -> CallDescriptors] : k \in {0, 1, 2}}

\* the classifier throws on no type, or on "BLOB"
ThrowSets == {{}, {"BLOB"}}

(***************************************************************************)
(* The type classifier (typeCategories.ts), a pure function of the type    *)
(* string.                                                                 *)
(***************************************************************************)
getDuckDbTypeCategory(columnType) ==
    CASE columnType = "INTEGER" -> "number"
      [] columnType = "VARCHAR" -> "string"
      [] OTHER -> Undefined

\* whether the classifier throws on a type string, and the error it throws
ClassifierThrows(columnType) == columnType \in throwsOn

ClassifierError(columnType) == [error |-> "classifier", columnType |-> columnType]

NoError == [error |-> "none", columnType |-> ""]

(***************************************************************************)
(* Node constructors.                                                      *)
(***************************************************************************)
\* a column key that leaves the column name out
createColumnNodeTableKey(schema, tableName, columnName, columnType) ==
    [key |-> schema \o "." \o tableName,
     object |-> [type |-> "column",
                 name |-> columnName,
                 columnType |-> columnType,
                 columnTypeCategory |-> getDuckDbTypeCategory(columnType)]]

createColumnNode(schema, tableName, columnName, columnType) ==
    [key |-> schema \o "." \o tableName \o "." \o columnName,
     object |-> [type |-> "column",
                 name |-> columnName,
                 columnType |-> columnType,
                 columnTypeCategory |-> getDuckDbTypeCategory(columnType)]]

\* a table key that starts with the database name
createTableNodeDatabaseKey(database, schema, tableName, columnNodes) ==
    [key |-> database \o "." \o schema \o "." \o tableName,
     object |-> [type |-> "table",
                 schema |-> schema,
                 database |-> database,
                 name |-> tableName],
     isInitialOpen |-> FALSE,
     children |-> columnNodes]

\* a table node that starts expanded
createTableNodeOpen(database, schema, tableName, columnNodes) ==
    [key |-> schema \o "." \o tableName,
     object |-> [type |-> "table",
                 schema |-> schema,
                 database |-> database,
                 name |-> tableName],
     isInitialOpen |-> TRUE,
     children |-> columnNodes]

\* a table payload with schema and database exchanged
createTableNodeSwapped(database, schema, tableName, columnNodes) ==
    [key |-> schema \o "." \o tableName,
     object |-> [type |-> "table",
                 schema |-> database,
                 database |-> schema,
                 name |-> tableName],
     isInitialOpen |-> FALSE,
     children |-> columnNodes]

\* a table key joined from the non-empty segments only
createTableNodeJoined(database, schema, tableName, columnNodes) ==
    [key |-> IF schema = "" THEN tableName
             ELSE IF tableName = "" THEN schema
             ELSE schema \o "." \o tableName,
     object |-> [type |-> "table",
                 schema |-> schema,
                 database |-> database,
                 name |-> tableName],
     isInitialOpen |-> FALSE,
     children |-> columnNodes]

createTableNode(database, schema, tableName, columnNodes) ==
    [key |-> schema \o "." \o tableName,
     object |-> [type |-> "table",
                 schema |-> schema,
                 database |-> database,
                 name |-> tableName],
     isInitialOpen |-> FALSE,
     children |-> columnNodes]

createSchemaTreeNode(schema, tableNodes) ==
    [key |-> schema,
     object |-> [type |-> "schema", name |-> schema],
     isInitialOpen |-> TRUE,
     children |-> tableNodes]

createDatabaseTreeNode(database, schemas) ==
    [key |-> database,
     object |-> [type |-> "database", name |-> database],
     isInitialOpen |-> TRUE,
     children |-> schemas]

(***************************************************************************)
(* JavaScript Map and Array operations used by the loop.                   *)
(***************************************************************************)
\* a comparison that ignores case and surrounding whitespace
Normalized(k) == CASE k = "DB" -> "db" [] k = "s " -> "s" [] OTHER -> k

SameKeyNormalized(a, b) == Normalized(a) = Normalized(b)

\* key comparison of Map (SameValueZero): exact string equality
SameKey(a, b) == a = b

MapHas(m, k) == \E n \in 1..Len(m) : SameKey(m[n].key, k)

MapIndex(m, k) == CHOOSE n \in 1..Len(m) : SameKey(m[n].key, k)

MapGet(m, k) == m[MapIndex(m, k)].value

\* a map that puts a new key first
MapSetFront(m, k, v) ==
    IF MapHas(m, k)
    THEN [m EXCEPT ![MapIndex(m, k)] = [key |-> m[MapIndex(m, k)].key, value |-> v]]
    ELSE <<[key |-> k, value |-> v]>> \o m

\* Map.set: a new key goes last, an existing key keeps its position
MapSet(m, k, v) ==
    IF MapHas(m, k)
    THEN [m EXCEPT ![MapIndex(m, k)] = [key |-> m[MapIndex(m, k)].key, value |-> v]]
    ELSE Append(m, [key |-> k, value |-> v])

\* Array.prototype.unshift in place of push
PushFront(arr, node) == <<node>> \o arr

\* a push that skips a node whose key the array already holds
PushUnlessPresent(arr, node) ==
    IF \E n \in 1..Len(arr) : arr[n].key = node.key THEN arr ELSE Append(arr, node)

\* a push that merges the columns of a node into a node of the same key
PushMerge(arr, node) ==
    IF \E n \in 1..Len(arr) : arr[n].key = node.key
    THEN LET n == CHOOSE m \in 1..Len(arr) : arr[m].key = node.key
         IN  [arr EXCEPT ![n].children = @ \o node.children]
    ELSE Append(arr, node)

\* Array.prototype.push
Push(arr, node) == Append(arr, node)

(***************************************************************************)
(* The body of createDbSchemaTrees.                                        *)
(***************************************************************************)
\* `table.database ?? ''`: no sentinel for an absent database
EffectiveDatabaseEmpty(table) ==
    IF table.database = Undefined THEN "" ELSE table.database[1]

\* `table.database || 'default'`: the empty string defaulted as well
EffectiveDatabaseOr(table) ==
    IF table.database = Undefined \/ table.database = <<"">>
    THEN "default"
    ELSE table.database[1]

\* `table.database ?? 'default'`
EffectiveDatabase(table) ==
    IF table.database = Undefined THEN "default" ELSE table.database[1]

\* the column nodes in reverse order
ColumnNodesReversed(table) ==
    [n \in 1..Len(table.columns) |->
        LET column == table.columns[Len(table.columns) + 1 - n]
        IN  createColumnNode(table.schema, table.tableName, column.name, column.type)]

\* table.columns.map(column => createColumnNode(...)): Array.prototype.map gives
\* an array of the same length, the n-th element made from the n-th
ColumnNodes(table) ==
    [n \in 1..Len(table.columns) |->
        LET column == table.columns[n]
        IN  createColumnNode(table.schema, table.tableName, column.name, column.type)]

\* a map callback that catches what the classifier throws
ColumnNodesOutcomeCaught(table) == [threw |-> FALSE, error |-> NoError]

\* how `table.columns.map(column => createColumnNode(...))` ends: createColumnNode
\* calls the classifier for each column in turn, nothing catches what it throws,
\* so the first column whose type makes it throw ends the map with that error
ColumnNodesOutcome(table) ==
    LET throwing == {n \in 1..Len(table.columns) : ClassifierThrows(table.columns[n].type)}
    IN  IF throwing = {}
        THEN [threw |-> FALSE, error |-> NoError]
        ELSE LET first == CHOOSE n \in throwing : \A m \in throwing : n <= m
             IN  [threw |-> TRUE, error |-> ClassifierError(table.columns[first].type)]

\* the array of descriptor n itself as the children of its table node
ColumnsArray(n) == [kind |-> "columns", of |-> n]

\* the array `table.columns.map(...)` returns for descriptor n:
\* Array.prototype.map makes a new array and leaves the one it reads alone
MapResultArray(n) == [kind |-> "new", of |-> n]

\* `if (!databaseMap.has(database)) databaseMap.set(database, new Map())`
EnsureDatabase(dbMap, database) ==
    IF ~MapHas(dbMap, database) THEN MapSet(dbMap, database, <<>>) ELSE dbMap

\* the schema's array reset on every descriptor
EnsureSchemaAlways(schemaMap, schema) == MapSet(schemaMap, schema, <<>>)

\* `if (!schemaMap.has(schema)) schemaMap.set(schema, [])`
EnsureSchema(schemaMap, schema) ==
    IF ~MapHas(schemaMap, schema) THEN MapSet(schemaMap, schema, <<>>) ELSE schemaMap

\* one iteration of `for (const table of tables)`; the maps and the array are
\* held by reference, so a change of the array shows in databaseMap
LoopBody(dbMap, table) ==
    LET database == EffectiveDatabase(table)
        schema == table.schema
        tableNode == createTableNode(database, schema, table.tableName, ColumnNodes(table))
        dbMap1 == EnsureDatabase(dbMap, database)
        schemaMap == EnsureSchema(MapGet(dbMap1, database), schema)
        pushed == MapSet(schemaMap, schema, Push(MapGet(schemaMap, schema), tableNode))
    IN  MapSet(dbMap1, database, pushed)

\* Array.from(schemaMap.entries()).map(([schema, tables]) => ...)
SchemaNodes(schemaMap) ==
    [n \in 1..Len(schemaMap) |-> createSchemaTreeNode(schemaMap[n].key, schemaMap[n].value)]

\* a conversion that gives an empty grouping a "default" database node
DatabaseNodesDefaultRoot(dbMap) ==
    IF dbMap = <<>>
    THEN <<createDatabaseTreeNode("default", <<>>)>>
    ELSE [n \in 1..Len(dbMap) |->
             createDatabaseTreeNode(dbMap[n].key, SchemaNodes(dbMap[n].value))]

\* Array.from(databaseMap.entries()).map(([database, schemaMap]) => ...)
DatabaseNodes(dbMap) ==
    [n \in 1..Len(dbMap) |->
        createDatabaseTreeNode(dbMap[n].key, SchemaNodes(dbMap[n].value))]

\* no svelte store is in use
NoStore ==
    /\ store = <<>>
    /\ applied = <<>>
    /\ returned = <<>>

\* the component App.svelte is not created
NoApp ==
    /\ roomStore = <<>>
    /\ isLoading = FALSE
    /\ errorText = "null"
    /\ queryResult = <<>>
    /\ runQuery = <<>>
    /\ disabled = FALSE
    /\ dirty = FALSE
    /\ mounted = FALSE

\* the state at the entry of a call: `const databaseMap = new Map()`
Entry ==
    /\ pc = "loop"
    /\ i = 1
    /\ databaseMap = <<>>
    /\ result = <<>>
    /\ error = NoError
    /\ childrenArray = <<>>
    /\ given = tables

Init ==
    /\ \/ tables \in Inputs /\ throwsOn = {}
       \/ tables \in TypedInputs /\ throwsOn \in ThrowSets
    /\ Entry
    /\ calls = <<>>
    /\ heap = <<>>
    /\ NoStore
    /\ NoApp

\* an iteration of the loop that completes
LoopStep ==
    /\ pc = "loop"
    /\ i <= Len(tables)
    /\ ~ColumnNodesOutcome(tables[i]).threw
    /\ databaseMap' = LoopBody(databaseMap, tables[i])
    /\ childrenArray' = Append(childrenArray, MapResultArray(i))
    /\ i' = i + 1
    /\ UNCHANGED <<tables, pc, result, throwsOn, error, given, callsVars, sliceVars, appVars>>

\* an iteration of the loop in which the classifier throws: the exception leaves
\* the map callback, the loop and the function
LoopThrow ==
    /\ pc = "loop"
    /\ i <= Len(tables)
    /\ ColumnNodesOutcome(tables[i]).threw
    /\ error' = ColumnNodesOutcome(tables[i]).error
    /\ pc' = "threw"
    /\ UNCHANGED <<tables, i, databaseMap, result, throwsOn, given, childrenArray, callsVars, sliceVars, appVars>>

Return ==
    /\ pc = "loop"
    /\ i > Len(tables)
    /\ result' = DatabaseNodes(databaseMap)
    /\ pc' = "done"
    /\ UNCHANGED <<tables, i, databaseMap, throwsOn, error, given, childrenArray, callsVars, sliceVars, appVars>>

Next == LoopStep \/ LoopThrow \/ Return

Spec == Init /\ [][Next]_vars

(***************************************************************************)
(* A call followed by the caller changing the returned tree: the caller    *)
(* empties the children array of one table node (children.length = 0).  An *)
(* array is one object: whoever else holds it sees the change.             *)
(***************************************************************************)
\* the input position of the descriptor behind the c-th table node of the
\* schema node `schema` of the database node `database`
SourceOfTableNode(database, schema, c) ==
    CHOOSE n \in 1..Len(tables) :
        /\ EffectiveDatabase(tables[n]) = database /\ tables[n].schema = schema
        /\ Cardinality({m \in 1..n : /\ EffectiveDatabase(tables[m]) = database
                                     /\ tables[m].schema = schema}) = c

MutateChildren ==
    /\ pc = "done"
    /\ \E a \in 1..Len(result) :
       \E b \in 1..Len(result[a].children) :
       \E c \in 1..Len(result[a].children[b].children) :
           LET array == childrenArray[SourceOfTableNode(result[a].key,
                                                       result[a].children[b].key, c)]
           IN  /\ result[a].children[b].children[c].children # <<>>
               /\ result' = [result EXCEPT ![a].children[b].children[c].children = <<>>]
               /\ tables' = IF array.kind = "columns"
                            THEN [tables EXCEPT ![array.of].columns = <<>>]
                            ELSE tables
    /\ pc' = "changed"
    /\ UNCHANGED <<i, databaseMap, throwsOn, error, given, childrenArray, callsVars, sliceVars, appVars>>

InitCaller ==
    /\ tables \in TypedInputs
    /\ throwsOn \in ThrowSets
    /\ Entry
    /\ calls = <<>>
    /\ heap = <<>>
    /\ NoStore
    /\ NoApp

NextCaller == Next \/ MutateChildren

SpecCaller == InitCaller /\ [][NextCaller]_vars

(***************************************************************************)
(* Several calls in progress at once, their loop iterations interleaved in *)
(* any order (one call after the other included).                          *)
(***************************************************************************)
\* the Map objects that may exist: one per call, and one of the module
MapIds == 0..MaxCalls

\* a single Map of the module, shared by all calls
ModuleMap(c) == 0

\* `const databaseMap = new Map()` in the function body: a Map of its own for
\* every call
NewMap(c) == c

InitCalls ==
    /\ tables = <<>>
    /\ throwsOn = {}
    /\ Entry
    /\ \E inputs \in [1..MaxCalls -> CallInputs] :
           calls = [c \in 1..MaxCalls |->
                       [tables |-> inputs[c], pc |-> "loop", i |-> 1,
                        map |-> NewMap(c), result |-> <<>>]]
    /\ heap = [m \in MapIds |-> <<>>]
    /\ NoStore
    /\ NoApp

CallLoopStep(c) ==
    /\ calls[c].pc = "loop"
    /\ calls[c].i <= Len(calls[c].tables)
    /\ ~ColumnNodesOutcome(calls[c].tables[calls[c].i]).threw
    /\ heap' = [heap EXCEPT ![calls[c].map] = LoopBody(@, calls[c].tables[calls[c].i])]
    /\ calls' = [calls EXCEPT ![c].i = @ + 1]
    /\ UNCHANGED <<callVars, sliceVars, appVars>>

CallReturn(c) ==
    /\ calls[c].pc = "loop"
    /\ calls[c].i > Len(calls[c].tables)
    /\ calls' = [calls EXCEPT ![c].result = DatabaseNodes(heap[calls[c].map]),
                              ![c].pc = "done"]
    /\ UNCHANGED <<heap, callVars, sliceVars, appVars>>

NextCalls == \E c \in DOMAIN calls : CallLoopStep(c) \/ CallReturn(c)

SpecCalls == InitCalls /\ [][NextCalls]_vars

(***************************************************************************)
(* The returned tree, read by position.                                    *)
(***************************************************************************)
Done == pc = "done"

Indices == 1..Len(tables)

DbPos == 1..Len(result)

SchemaPos == UNION {{<<a, b>> : b \in 1..Len(result[a].children)} : a \in DbPos}

TablePos ==
    UNION {{<<p[1], p[2], c>> : c \in 1..Len(result[p[1]].children[p[2]].children)} :
           p \in SchemaPos}

ColumnPos ==
    UNION {{<<p[1], p[2], p[3], e>> :
            e \in 1..Len(result[p[1]].children[p[2]].children[p[3]].children)} :
           p \in TablePos}

DbNode(p) == result[p[1]]

SchemaNode(p) == DbNode(p).children[p[2]]

TableNode(p) == SchemaNode(p).children[p[3]]

ColumnNode(p) == TableNode(p).children[p[4]]

\* the database a descriptor names, "default" when it names none
DatabaseOrDefault(d) == IF d.database = <<>> THEN "default" ELSE d.database[1]

\* the descriptors of one database and schema, in input order
GroupOf(database, schema) ==
    SelectSeq(tables, LAMBDA d : DatabaseOrDefault(d) = database /\ d.schema = schema)

\* the input positions of the descriptors of one triple
DescriptorsOf(database, schema, tableName) ==
    {n \in Indices : /\ DatabaseOrDefault(tables[n]) = database
                     /\ tables[n].schema = schema
                     /\ tables[n].tableName = tableName}

\* the table nodes placed under the path database / schema / tableName
TableNodesOf(database, schema, tableName) ==
    {p \in TablePos : /\ DbNode(p).key = database
                      /\ SchemaNode(p).key = schema
                      /\ TableNode(p).object.name = tableName}

\* the first input position that names a database, or a schema of a database
FirstOfDatabase(database) ==
    CHOOSE n \in Indices :
        /\ DatabaseOrDefault(tables[n]) = database
        /\ \A m \in 1..(n - 1) : DatabaseOrDefault(tables[m]) # database

FirstOfSchema(database, schema) ==
    CHOOSE n \in Indices :
        /\ DatabaseOrDefault(tables[n]) = database /\ tables[n].schema = schema
        /\ \A m \in 1..(n - 1) :
               ~(DatabaseOrDefault(tables[m]) = database /\ tables[m].schema = schema)

(***************************************************************************)
(* C1: every descriptor gives exactly one table node: the tree has as many *)
(* table nodes as the input has descriptors, the path database / schema /  *)
(* tableName holds as many table nodes as the input has descriptors of     *)
(* that triple, and exactly one database node has the descriptor's         *)
(* effective database as key and, under it, exactly one schema node has    *)
(* the descriptor's schema as key.                                         *)
(***************************************************************************)
C1_OneTableNodePerDescriptor ==
    Done =>
        /\ Cardinality(TablePos) = Len(tables)
        /\ \A n \in Indices :
            LET database == DatabaseOrDefault(tables[n])
                schema == tables[n].schema
                tableName == tables[n].tableName
            IN  /\ Cardinality(TableNodesOf(database, schema, tableName))
                       = Cardinality(DescriptorsOf(database, schema, tableName))
                /\ Cardinality({a \in DbPos : result[a].key = database}) = 1
                /\ Cardinality({p \in SchemaPos : DbNode(p).key = database
                                                  /\ SchemaNode(p).key = schema}) = 1

\* three descriptors, two of them the same triple, over two databases
C1_Witness ==
    /\ Done
    /\ Len(tables) = 3
    /\ tables[1] = tables[3]
    /\ tables[2].database = <<"db">>
    /\ tables[1].database = Undefined
    /\ Cardinality(TablePos) = 3

(***************************************************************************)
(* C2: the table nodes of a schema node are, in order, the descriptors of  *)
(* that database and schema in input order, not sorted by table name.      *)
(***************************************************************************)
C2_TablesInInputOrder ==
    Done =>
        \A p \in SchemaPos :
            LET group == GroupOf(DbNode(p).key, SchemaNode(p).key)
                children == SchemaNode(p).children
            IN  /\ Len(children) = Len(group)
                /\ \A k \in 1..Len(children) :
                       children[k].object.name = group[k].tableName

\* "u" was supplied before "t" in one schema, a descriptor of another schema between
C2_Witness ==
    /\ Done
    /\ Len(tables) = 3
    /\ tables[1].tableName = "u" /\ tables[3].tableName = "t"
    /\ tables[1].database = tables[3].database /\ tables[1].schema = tables[3].schema
    /\ tables[2].schema # tables[1].schema
    /\ \E p \in SchemaPos :
           /\ Len(SchemaNode(p).children) = 2
           /\ SchemaNode(p).children[1].object.name = "u"
           /\ SchemaNode(p).children[2].object.name = "t"

(***************************************************************************)
(* C3: database nodes are ordered by the first input position naming      *)
(* their database, and the schema nodes of a database node by the first    *)
(* input position naming that schema with that database.                   *)
(***************************************************************************)
C3_FirstOccurrenceOrder ==
    Done =>
        /\ \A a \in DbPos : \E n \in Indices : DatabaseOrDefault(tables[n]) = result[a].key
        /\ \A a, b \in DbPos :
               a < b => FirstOfDatabase(result[a].key) < FirstOfDatabase(result[b].key)
        /\ \A p \in SchemaPos : GroupOf(DbNode(p).key, SchemaNode(p).key) # <<>>
        /\ \A p, q \in SchemaPos :
               (p[1] = q[1] /\ p[2] < q[2]) =>
                   FirstOfSchema(DbNode(p).key, SchemaNode(p).key)
                       < FirstOfSchema(DbNode(q).key, SchemaNode(q).key)

\* interleaved input: "db" / "s ", then "DB", then "db" / "s"
C3_Witness ==
    /\ Done
    /\ Len(tables) = 3
    /\ tables[1].database = <<"db">> /\ tables[1].schema = "s "
    /\ tables[2].database = <<"DB">>
    /\ tables[3].database = <<"db">> /\ tables[3].schema = "s"
    /\ Len(result) = 2
    /\ result[1].key = "db" /\ result[2].key = "DB"
    /\ Len(result[1].children) = 2
    /\ result[1].children[1].key = "s " /\ result[1].children[2].key = "s"

(***************************************************************************)
(* C4: the children of a table node are one column node per column of its  *)
(* descriptor, the e-th child for the e-th column, in the descriptor's     *)
(* order.  The k-th table node of a schema node belongs to the k-th        *)
(* descriptor of that database and schema.                                 *)
(***************************************************************************)
C4_ColumnsInDescriptorOrder ==
    Done =>
        \A p \in SchemaPos :
            LET group == GroupOf(DbNode(p).key, SchemaNode(p).key)
                children == SchemaNode(p).children
            IN  /\ Len(children) = Len(group)
                /\ \A k \in 1..Len(children) :
                    /\ Len(children[k].children) = Len(group[k].columns)
                    /\ \A e \in 1..Len(group[k].columns) :
                        /\ children[k].children[e].object.name = group[k].columns[e].name
                        /\ children[k].children[e].object.columnType
                               = group[k].columns[e].type

\* a descriptor that declares "b" before "a"
C4_Witness ==
    /\ Done
    /\ \E n \in Indices :
           /\ Len(tables[n].columns) = 2
           /\ tables[n].columns[1].name = "b" /\ tables[n].columns[2].name = "a"
    /\ \E p \in TablePos :
           /\ Len(TableNode(p).children) = 2
           /\ TableNode(p).children[1].object.name = "b"
           /\ TableNode(p).children[2].object.name = "a"

(***************************************************************************)
(* C5: grouping is by exact string equality: the database nodes have       *)
(* pairwise different keys and their keys are the effective databases of   *)
(* the input; the schema nodes of a database node have pairwise different  *)
(* keys and their keys are the schemas the input uses with that database.  *)
(***************************************************************************)
C5_GroupingByExactEquality ==
    Done =>
        /\ \A a, b \in DbPos : result[a].key = result[b].key => a = b
        /\ {result[a].key : a \in DbPos} = {DatabaseOrDefault(tables[n]) : n \in Indices}
        /\ \A p, q \in SchemaPos :
               (p[1] = q[1] /\ SchemaNode(p).key = SchemaNode(q).key) => p = q
        /\ \A a \in DbPos :
               {result[a].children[b].key : b \in 1..Len(result[a].children)}
                   = {tables[n].schema :
                          n \in {m \in Indices : DatabaseOrDefault(tables[m]) = result[a].key}}

\* "db" and "DB" are two database nodes, "s" and "s " two schema nodes of "db",
\* and "s" is a schema node of both databases
C5_Witness ==
    /\ Done
    /\ {<<DatabaseOrDefault(tables[n]), tables[n].schema>> : n \in Indices}
           = {<<"db", "s">>, <<"db", "s ">>, <<"DB", "s">>}
    /\ Len(result) = 2
    /\ Cardinality(SchemaPos) = 3

(***************************************************************************)
(* C6: a descriptor without a database is placed under the database node  *)
(* keyed "default"; there is one such node however many descriptors have   *)
(* no database, and it holds one table node per descriptor whose effective *)
(* database is "default".                                                  *)
(***************************************************************************)
C6_AbsentDatabaseIsDefault ==
    Done =>
        /\ \A n \in Indices :
               tables[n].database = Undefined =>
                   /\ Cardinality({a \in DbPos : result[a].key = "default"}) = 1
                   /\ \E p \in TablePos :
                          /\ DbNode(p).key = "default"
                          /\ SchemaNode(p).key = tables[n].schema
                          /\ TableNode(p).object.name = tables[n].tableName
                          /\ TableNode(p).object.database = "default"
        /\ Cardinality({p \in TablePos : DbNode(p).key = "default"})
               = Cardinality({n \in Indices : DatabaseOrDefault(tables[n]) = "default"})

\* two descriptors without a database, in different schemas, and one with a database
C6_Witness ==
    /\ Done
    /\ Len(tables) = 3
    /\ tables[1].database = Undefined /\ tables[3].database = Undefined
    /\ tables[2].database = <<"db">>
    /\ tables[1].schema # tables[3].schema
    /\ Len(result) = 2
    /\ result[1].key = "default"
    /\ Cardinality({p \in TablePos : DbNode(p).key = "default"}) = 2

(***************************************************************************)
(* Preconditions on the input, and key uniqueness.                         *)
(***************************************************************************)
\* no two descriptors have the same database (as given), schema and table name
NoDuplicateTriples ==
    \A m, n \in Indices :
        (/\ tables[m].database = tables[n].database
         /\ tables[m].schema = tables[n].schema
         /\ tables[m].tableName = tables[n].tableName) => m = n

\* the same, an absent database counting as "default"
NoDuplicateEffectiveTriples ==
    \A n \in Indices :
        DescriptorsOf(DatabaseOrDefault(tables[n]), tables[n].schema, tables[n].tableName)
            = {n}

\* no descriptor lists a column name twice
DistinctColumnNames ==
    \A n \in Indices :
        \A e, f \in 1..Len(tables[n].columns) :
            tables[n].columns[e].name = tables[n].columns[f].name => e = f

SiblingKeysUnique ==
    /\ \A a, b \in DbPos : result[a].key = result[b].key => a = b
    /\ \A p, q \in SchemaPos :
           (p[1] = q[1] /\ SchemaNode(p).key = SchemaNode(q).key) => p = q
    /\ \A p, q \in TablePos :
           (p[1] = q[1] /\ p[2] = q[2] /\ TableNode(p).key = TableNode(q).key) => p = q
    /\ \A p, q \in ColumnPos :
           (/\ p[1] = q[1] /\ p[2] = q[2] /\ p[3] = q[3]
            /\ ColumnNode(p).key = ColumnNode(q).key) => p = q

\* the key of the schema, table or column node at a position
KeyAt(p) ==
    CASE Len(p) = 2 -> SchemaNode(p).key
      [] Len(p) = 3 -> TableNode(p).key
      [] Len(p) = 4 -> ColumnNode(p).key

(***************************************************************************)
(* C7, as stated: when no two descriptors share a (database, schema,       *)
(* tableName) triple, no two sibling nodes have the same key, at any of    *)
(* the four levels.                                                        *)
(***************************************************************************)
C7_SiblingKeysUnique ==
    (Done /\ NoDuplicateTriples) => SiblingKeysUnique

(***************************************************************************)
(* C7, amended: when no two descriptors share an (effective database,      *)
(* schema, tableName) triple and no descriptor lists a column name twice,  *)
(* no two sibling nodes have the same key, at any of the four levels.      *)
(***************************************************************************)
C7_SiblingKeysUniqueDistinctColumns ==
    (Done /\ NoDuplicateEffectiveTriples /\ DistinctColumnNames) => SiblingKeysUnique

\* two tables of one schema, two columns each
C7_Witness ==
    /\ Done
    /\ NoDuplicateEffectiveTriples
    /\ DistinctColumnNames
    /\ Len(tables) = 2
    /\ Len(tables[1].columns) = 2 /\ Len(tables[2].columns) = 2
    /\ Len(result) = 1 /\ Len(result[1].children) = 1
    /\ Cardinality(ColumnPos) = 4

(***************************************************************************)
(* C8: when no two descriptors share a triple, the key of every schema,    *)
(* table and column node is unique in the whole tree, across databases and *)
(* levels.  Stated for the inputs whose descriptors also list no column    *)
(* name twice, the inputs on which sibling keys are unique.                *)
(***************************************************************************)
C8_KeysUniqueInTree ==
    (Done /\ NoDuplicateEffectiveTriples /\ DistinctColumnNames) =>
        \A p, q \in SchemaPos \cup TablePos \cup ColumnPos : KeyAt(p) = KeyAt(q) => p = q

(***************************************************************************)
(* C9: a triple that occurs k times in the input has k table nodes in its  *)
(* schema node, all with the key schema.tableName, the j-th of them with   *)
(* the columns of the j-th descriptor of the triple.                       *)
(***************************************************************************)
ColumnsOfNode(t) ==
    [e \in 1..Len(t.children) |->
        [name |-> t.children[e].object.name, type |-> t.children[e].object.columnType]]

C9_DuplicatesKeptApart ==
    Done =>
        \A n \in Indices :
            LET database == DatabaseOrDefault(tables[n])
                schema == tables[n].schema
                tableName == tables[n].tableName
                same == SelectSeq(tables,
                            LAMBDA d : /\ DatabaseOrDefault(d) = database
                                       /\ d.schema = schema
                                       /\ d.tableName = tableName)
            IN  \E p \in SchemaPos :
                    /\ DbNode(p).key = database
                    /\ SchemaNode(p).key = schema
                    /\ LET nodes == SelectSeq(SchemaNode(p).children,
                                        LAMBDA t : t.object.name = tableName)
                       IN  /\ Len(nodes) = Len(same)
                           /\ \A j \in 1..Len(nodes) :
                                  /\ nodes[j].key = schema \o "." \o tableName
                                  /\ ColumnsOfNode(nodes[j]) = same[j].columns

\* one triple supplied twice, with different column lists
C9_Witness ==
    /\ Done
    /\ Len(tables) = 2
    /\ tables[1].database = tables[2].database
    /\ tables[1].schema = tables[2].schema
    /\ tables[1].tableName = tables[2].tableName
    /\ Len(tables[1].columns) = 1 /\ Len(tables[2].columns) = 2
    /\ Len(result) = 1 /\ Len(result[1].children) = 1
    /\ Len(result[1].children[1].children) = 2
    /\ result[1].children[1].children[1].key = result[1].children[1].children[2].key

(***************************************************************************)
(* C10: the key of a database node is an effective database of the input,  *)
(* the key of a schema node a schema of the input, the key of a table node *)
(* schema.tableName and the key of a column node                           *)
(* schema.tableName.columnName; no database name enters the key of a       *)
(* schema, table or column node.                                           *)
(***************************************************************************)
C10_KeyFormats ==
    Done =>
        /\ \A a \in DbPos : \E n \in Indices : result[a].key = DatabaseOrDefault(tables[n])
        /\ \A p \in SchemaPos :
            LET group == GroupOf(DbNode(p).key, SchemaNode(p).key)
                children == SchemaNode(p).children
            IN  /\ group # <<>>
                /\ Len(children) = Len(group)
                /\ \A k \in 1..Len(children) :
                    /\ children[k].key = group[k].schema \o "." \o group[k].tableName
                    /\ Len(children[k].children) = Len(group[k].columns)
                    /\ \A e \in 1..Len(group[k].columns) :
                           children[k].children[e].key
                               = group[k].schema \o "." \o group[k].tableName
                                     \o "." \o group[k].columns[e].name

\* a table of database "db" whose key and column key do not mention "db"
C10_Witness ==
    /\ Done
    /\ \E p \in TablePos :
           /\ DbNode(p).key = "db"
           /\ SchemaNode(p).key = "s "
           /\ TableNode(p).key = "s .u"
           /\ Len(TableNode(p).children) = 1
           /\ TableNode(p).children[1].key = "s .u.a"

(***************************************************************************)
(* C11: the shape of a node is fixed by its depth: database nodes (depth   *)
(* 1) and schema nodes (depth 2) have isInitialOpen = TRUE and at least    *)
(* one child; table nodes (depth 3) have isInitialOpen = FALSE and a       *)
(* children sequence, empty when the descriptor has no columns; column     *)
(* nodes (depth 4) have a key and a payload and neither an isInitialOpen   *)
(* nor a children field.                                                   *)
(***************************************************************************)
InnerNodeFields == {"key", "object", "isInitialOpen", "children"}

C11_ShapeByDepth ==
    Done =>
        /\ \A a \in DbPos :
               /\ DOMAIN result[a] = InnerNodeFields
               /\ result[a].object.type = "database"
               /\ result[a].isInitialOpen = TRUE
               /\ Len(result[a].children) >= 1
        /\ \A p \in SchemaPos :
               /\ DOMAIN SchemaNode(p) = InnerNodeFields
               /\ SchemaNode(p).object.type = "schema"
               /\ SchemaNode(p).isInitialOpen = TRUE
               /\ Len(SchemaNode(p).children) >= 1
        /\ \A p \in TablePos :
               /\ DOMAIN TableNode(p) = InnerNodeFields
               /\ TableNode(p).object.type = "table"
               /\ TableNode(p).isInitialOpen = FALSE
        /\ \A p \in ColumnPos :
               /\ DOMAIN ColumnNode(p) = {"key", "object"}
               /\ ColumnNode(p).object.type = "column"

\* a table without columns next to a table with two
C11_Witness ==
    /\ Done
    /\ \E p, q \in TablePos :
           /\ p[1] = q[1] /\ p[2] = q[2]
           /\ TableNode(p).children = <<>>
           /\ Len(TableNode(q).children) = 2
    /\ \E n \in Indices : tables[n].columns = <<>>

(***************************************************************************)
(* C12: the payload of a node agrees with its place and its source.  A     *)
(* table payload is exactly {type, schema, database, name} with the        *)
(* descriptor's tableName, the key of the parent schema node and the key   *)
(* of the grandparent database node ("default" for an absent database).  A *)
(* column payload is exactly {type, name, columnType, columnTypeCategory}  *)
(* with the column's name, its declared type unchanged and the category    *)
(* the classifier gives for that type, so that columns of one type have    *)
(* one category.  Schema and database payloads are exactly {type, name}.   *)
(***************************************************************************)
C12_PayloadsAgree ==
    Done =>
        /\ \A a \in DbPos :
               result[a].object = [type |-> "database", name |-> result[a].key]
        /\ \A p \in SchemaPos :
            LET group == GroupOf(DbNode(p).key, SchemaNode(p).key)
                children == SchemaNode(p).children
            IN  /\ SchemaNode(p).object = [type |-> "schema", name |-> SchemaNode(p).key]
                /\ Len(children) = Len(group)
                /\ \A k \in 1..Len(children) :
                    /\ children[k].object
                           = [type |-> "table",
                              schema |-> SchemaNode(p).key,
                              database |-> DbNode(p).key,
                              name |-> group[k].tableName]
                    /\ children[k].object.database = DatabaseOrDefault(group[k])
                    /\ Len(children[k].children) = Len(group[k].columns)
                    /\ \A e \in 1..Len(group[k].columns) :
                           children[k].children[e].object
                               = [type |-> "column",
                                  name |-> group[k].columns[e].name,
                                  columnType |-> group[k].columns[e].type,
                                  columnTypeCategory |->
                                      getDuckDbTypeCategory(group[k].columns[e].type)]
        /\ \A p, q \in ColumnPos :
               ColumnNode(p).object.columnType = ColumnNode(q).object.columnType =>
                   ColumnNode(p).object.columnTypeCategory
                       = ColumnNode(q).object.columnTypeCategory

\* a table of the default database with two columns of one type, and a column
\* of another type
C12_Witness ==
    /\ Done
    /\ Len(tables) = 2
    /\ tables[1].database = Undefined
    /\ result[1].key = "default"
    /\ \E p, q \in ColumnPos :
           /\ ColumnNode(p).object.name # ColumnNode(q).object.name
           /\ ColumnNode(p).object.columnType = "INTEGER"
           /\ ColumnNode(q).object.columnType = "INTEGER"
           /\ ColumnNode(q).object.columnTypeCategory = "number"
    /\ \E p \in ColumnPos : ColumnNode(p).object.columnType = "VARCHAR"

(***************************************************************************)
(* C13: the empty input gives the empty sequence of nodes and no error,    *)
(* whatever the classifier throws on; a returned tree is empty only when   *)
(* the input is empty.                                                     *)
(***************************************************************************)
C13_EmptyInputEmptyTree ==
    /\ Done => (result = <<>> <=> tables = <<>>)
    /\ tables = <<>> =>
           /\ pc # "threw"
           /\ error = NoError
           /\ pc = "loop" => ENABLED Return

\* the call on the empty input has returned, the classifier throwing on "BLOB"
C13_Witness ==
    /\ Done
    /\ tables = <<>>
    /\ result = <<>>
    /\ throwsOn = {"BLOB"}

(***************************************************************************)
(* C14: the function is deterministic: any two calls that were given equal *)
(* inputs and have returned, have returned equal trees, whatever other     *)
(* calls ran before or between them.                                       *)
(***************************************************************************)
C14_EqualInputsEqualTrees ==
    \A c, d \in DOMAIN calls :
        (/\ calls[c].pc = "done" /\ calls[d].pc = "done"
         /\ calls[c].tables = calls[d].tables) =>
            calls[c].result = calls[d].result

\* calls 1 and 3 were given the same two descriptors, call 2 another input
C14_Witness ==
    /\ \A c \in DOMAIN calls : calls[c].pc = "done"
    /\ Len(calls[1].tables) = 2
    /\ calls[1].tables = calls[3].tables
    /\ calls[2].tables # calls[1].tables /\ calls[2].tables # <<>>
    /\ calls[1].result = calls[3].result
    /\ calls[1].result # <<>>

(***************************************************************************)
(* C16: a call whose loop iterations are interleaved with those of other   *)
(* calls returns the tree it returns when it runs alone: the grouping of   *)
(* the input, one descriptor after the other from an empty Map, converted  *)
(* to nodes.  While it runs, its Map holds the grouping of the descriptors *)
(* it has consumed and of nothing else.                                    *)
(***************************************************************************)
RECURSIVE GroupingOfFirst(_, _)
GroupingOfFirst(input, n) ==
    IF n = 0 THEN <<>> ELSE LoopBody(GroupingOfFirst(input, n - 1), input[n])

RunAlone(input) == DatabaseNodes(GroupingOfFirst(input, Len(input)))

C16_InterleavedAsAlone ==
    \A c \in DOMAIN calls :
        /\ heap[calls[c].map] = GroupingOfFirst(calls[c].tables, calls[c].i - 1)
        /\ calls[c].pc = "done" => calls[c].result = RunAlone(calls[c].tables)

\* call 1 has returned while calls 2 and 3, on other inputs, are half way
C16_Witness ==
    /\ calls[1].pc = "done"
    /\ Len(calls[1].tables) = 2
    /\ calls[1].result = RunAlone(calls[1].tables)
    /\ calls[2].pc = "loop" /\ calls[2].i = 2 /\ Len(calls[2].tables) = 2
    /\ calls[3].pc = "loop" /\ calls[3].i = 2 /\ Len(calls[3].tables) = 2
    /\ calls[2].tables # calls[1].tables
    /\ calls[3].tables # calls[1].tables
    /\ calls[3].tables # calls[2].tables

(***************************************************************************)
(* C15: the call leaves its input as it was given (the sequence, every     *)
(* descriptor, every column list), and so does a change the caller makes   *)
(* to a child sequence of the returned tree afterwards: the tree shares no *)
(* array with the input.                                                   *)
(***************************************************************************)
C15_InputUntouched == tables = given

\* the caller has emptied the children of a table node whose descriptor has columns
C15_Witness ==
    /\ pc = "changed"
    /\ Len(tables) = 2
    /\ Len(tables[1].columns) = 2 /\ Len(tables[2].columns) = 2
    /\ \E p \in TablePos : TableNode(p).children = <<>>

(***************************************************************************)
(* C17: when the classifier throws on the type of some column of the       *)
(* input, the call ends with that error as the classifier threw it (the    *)
(* one of the first such column in input order) and returns no tree; it    *)
(* never returns afterwards.  When the classifier throws on no column type *)
(* of the input, the call raises no error.                                 *)
(***************************************************************************)
\* the columns of the input, by descriptor and place, on whose type the
\* classifier throws
ThrowingColumns ==
    UNION {{<<n, e>> : e \in {f \in 1..Len(tables[n].columns) :
                                ClassifierThrows(tables[n].columns[f].type)}} :
           n \in Indices}

\* the first column, in input order, on whose type the classifier throws
FirstThrowingColumn ==
    CHOOSE x \in ThrowingColumns :
        \A y \in ThrowingColumns : x[1] < y[1] \/ (x[1] = y[1] /\ x[2] <= y[2])

C17_ClassifierErrorPropagates ==
    /\ pc = "threw" =>
           /\ ThrowingColumns # {}
           /\ error = ClassifierError(
                          tables[FirstThrowingColumn[1]].columns[FirstThrowingColumn[2]].type)
           /\ result = <<>>
           /\ ~ENABLED Next
    /\ ThrowingColumns # {} =>
           /\ pc # "done"
           /\ pc = "loop" => ENABLED (LoopStep \/ LoopThrow)
    /\ ThrowingColumns = {} => (pc # "threw" /\ error = NoError)

\* the first descriptor was grouped, the classifier threw on the second
C17_Witness ==
    /\ pc = "threw"
    /\ Len(tables) = 2
    /\ i = 2
    /\ databaseMap # <<>>
    /\ result = <<>>
    /\ error = ClassifierError("BLOB")

(***************************************************************************)
(* C18: a descriptor whose schema, table name or a column name is the      *)
(* empty string is not rejected: unless the classifier throws the call     *)
(* goes on to return, and the descriptor has its table node, keyed         *)
(* schema.tableName with the empty segment kept (".t" for schema "" and    *)
(* table "t"), with its column nodes; a schema node keyed "" holds the     *)
(* descriptors of schema "" in input order like any other schema node.     *)
(***************************************************************************)
HasEmptyName(d) ==
    \/ d.schema = ""
    \/ d.tableName = ""
    \/ \E e \in 1..Len(d.columns) : d.columns[e].name = ""

C18_EmptyNamesAccepted ==
    /\ (/\ \E n \in Indices : HasEmptyName(tables[n])
        /\ ThrowingColumns = {}
        /\ pc # "done") =>
           (pc = "loop" /\ ENABLED (LoopStep \/ Return))
    /\ Done =>
        /\ Cardinality(TablePos) = Len(tables)
        /\ \A n \in Indices :
               HasEmptyName(tables[n]) =>
                   \E p \in TablePos :
                       /\ DbNode(p).key = DatabaseOrDefault(tables[n])
                       /\ SchemaNode(p).key = tables[n].schema
                       /\ TableNode(p).object.name = tables[n].tableName
                       /\ TableNode(p).key = tables[n].schema \o "." \o tables[n].tableName
                       /\ (tables[n].schema = "" /\ tables[n].tableName = "t") =>
                              TableNode(p).key = ".t"
                       /\ Len(TableNode(p).children) = Len(tables[n].columns)
                       /\ \A e \in 1..Len(tables[n].columns) :
                              TableNode(p).children[e].key
                                  = TableNode(p).key \o "." \o tables[n].columns[e].name
        /\ \A p \in SchemaPos :
               SchemaNode(p).key = "" =>
                   LET group == GroupOf(DbNode(p).key, "")
                   IN  /\ Len(SchemaNode(p).children) = Len(group)
                       /\ \A k \in 1..Len(group) :
                              SchemaNode(p).children[k].object.name = group[k].tableName

\* schema "" with table "t" and column "", then schema "" with table ""
C18_Witness ==
    /\ Done
    /\ Len(tables) = 2
    /\ tables[1].schema = "" /\ tables[1].tableName = "t"
    /\ tables[1].columns[1].name = ""
    /\ tables[2].schema = "" /\ tables[2].tableName = ""
    /\ Len(result) = 1 /\ Len(result[1].children) = 1
    /\ result[1].children[1].key = ""
    /\ Len(result[1].children[1].children) = 2
    /\ result[1].children[1].children[1].key = ".t"
    /\ result[1].children[1].children[1].children[1].key = ".t."
    /\ result[1].children[1].children[2].key = "."

(***************************************************************************)
(* C20: a descriptor without a database and a descriptor with the database *)
(* "default" are under the one database node keyed "default", the payload  *)
(* of their table nodes recording the database "default"; a descriptor     *)
(* with the database "" is not defaulted: it is under a database node      *)
(* keyed "", which holds the descriptors of database "" and no other.  The *)
(* tree is the one of the input with "default" written where the database  *)
(* is absent.                                                              *)
(***************************************************************************)
\* the input with the database "default" written out where it is absent
WithDefaultWritten(input) ==
    [n \in 1..Len(input) |->
        [input[n] EXCEPT !.database = IF @ = Undefined THEN <<"default">> ELSE @]]

TablePosUnder(database) == {p \in TablePos : DbNode(p).key = database}

C20_DefaultLiteralShared ==
    Done =>
        /\ result = RunAlone(WithDefaultWritten(tables))
        /\ Cardinality({a \in DbPos : result[a].key = "default"}) <= 1
        /\ Cardinality(TablePosUnder("default"))
               = Cardinality({n \in Indices :
                                 tables[n].database \in {Undefined, <<"default">>}})
        /\ Cardinality(TablePosUnder(""))
               = Cardinality({n \in Indices : tables[n].database = <<"">>})
        /\ \A p \in TablePosUnder("default") : TableNode(p).object.database = "default"
        /\ \A p \in TablePosUnder("") : TableNode(p).object.database = ""
        /\ \A n \in Indices :
               \E p \in TablePosUnder(IF tables[n].database = <<"">> THEN ""
                                      ELSE DatabaseOrDefault(tables[n])) :
                   /\ SchemaNode(p).key = tables[n].schema
                   /\ TableNode(p).object.name = tables[n].tableName

\* no database, database "", database "default": two database nodes
C20_Witness ==
    /\ Done
    /\ Len(tables) = 3
    /\ tables[1].database = Undefined
    /\ tables[2].database = <<"">>
    /\ tables[3].database = <<"default">>
    /\ Len(result) = 2
    /\ result[1].key = "default" /\ result[2].key = ""
    /\ Cardinality(TablePosUnder("default")) = 2
    /\ Cardinality(TablePosUnder("")) = 1

(***************************************************************************)
(* C19: during a build no node changes once it exists.  Every step keeps   *)
(* the database groups, the schema groups and the table nodes (with their  *)
(* column nodes) that the grouping holds, each in its place, new ones      *)
(* coming last.  No database or schema node exists before the return; the  *)
(* return happens when every descriptor has been appended, gives each      *)
(* schema node the accumulated list of its group as children, and leaves   *)
(* the grouping as it is; after the return nothing changes.                *)
(***************************************************************************)
GroupingKept ==
    \A a \in 1..Len(databaseMap) :
        /\ a <= Len(databaseMap')
        /\ databaseMap'[a].key = databaseMap[a].key
        /\ \A b \in 1..Len(databaseMap[a].value) :
            /\ b <= Len(databaseMap'[a].value)
            /\ databaseMap'[a].value[b].key = databaseMap[a].value[b].key
            /\ \A c \in 1..Len(databaseMap[a].value[b].value) :
                /\ c <= Len(databaseMap'[a].value[b].value)
                /\ databaseMap'[a].value[b].value[c] = databaseMap[a].value[b].value[c]

ReturnsAccumulatedLists ==
    /\ i > Len(tables)
    /\ databaseMap' = databaseMap
    /\ Len(result') = Len(databaseMap)
    /\ \A a \in 1..Len(databaseMap) :
        /\ Len(result'[a].children) = Len(databaseMap[a].value)
        /\ \A b \in 1..Len(databaseMap[a].value) :
               result'[a].children[b].children = databaseMap[a].value[b].value

C19_NodesNeverChange ==
    [][/\ GroupingKept
       /\ pc # "done" => result = <<>>
       /\ (pc # "done" /\ pc' = "done") => ReturnsAccumulatedLists
       /\ pc = "done" => (result' = result /\ databaseMap' = databaseMap)]_vars

\* a returned tree with a schema node of two tables, the same triple twice
C19_Witness ==
    /\ Done
    /\ Len(tables) = 3
    /\ tables[1] = tables[3]
    /\ tables[2].schema # tables[1].schema
    /\ \E p \in SchemaPos :
           /\ Len(SchemaNode(p).children) = 2
           /\ SchemaNode(p).children = databaseMap[p[1]].value[p[2]].value

(***************************************************************************)
(* The svelte room store (svelte-room-store).  The state of the store is   *)
(* an object: a function from its own keys to their values.  `store` is    *)
(* the state held by the writable, `applied` the slices whose factories    *)
(* were applied to it, oldest first, and `returned` what the last          *)
(* application returned.                                                   *)
(***************************************************************************)
\* how many factories are applied to one store
MaxApplied == 3

\* the value null
Null == "null"

\* room objects; they differ in the fields they carry
Rooms ==
    { [isLoading |-> FALSE, error |-> Null],
      [isLoading |-> TRUE, error |-> "failed", tables |-> "earthquakes"],
      [isLoading |-> FALSE] }

Configs == {"config1", "config2"}

\* RoomSlice<TConfig>: objects with a config and a room.  The type is
\* structural, so an object with a further own key is a RoomSlice too.
Slices ==
    [config : Configs, room : Rooms]
        \cup [config : {"config1"}, room : {[isLoading |-> FALSE]}, theme : {"dark"}]

\* the states a store may hold when a factory is applied: the parameter is
\* a Writable<any>
StoreStates ==
    { [config |-> "config0", room |-> [isLoading |-> FALSE, error |-> Null]],
      [config |-> "config0", room |-> [isLoading |-> TRUE, error |-> Null, tables |-> "quakes"],
       theme |-> "light"],
      [theme |-> "light", panel |-> "open"] }

\* ({...state, ...initialSlice}) with the room fields merged instead of
\* the room replaced
SpreadMergingRoom(state, initialSlice) ==
    [k \in DOMAIN state \cup DOMAIN initialSlice |->
        IF k \in DOMAIN initialSlice
        THEN IF k = "room" /\ k \in DOMAIN state
             THEN [f \in DOMAIN state[k] \cup DOMAIN initialSlice[k] |->
                      IF f \in DOMAIN initialSlice[k] THEN initialSlice[k][f]
                                                      ELSE state[k][f]]
             ELSE initialSlice[k]
        ELSE state[k]]

\* ({...state, ...initialSlice}): the own keys of both, those of the slice
\* taking the slice's values
Spread(state, initialSlice) ==
    [k \in DOMAIN state \cup DOMAIN initialSlice |->
        IF k \in DOMAIN initialSlice THEN initialSlice[k] ELSE state[k]]

\* no call of createDbSchemaTrees is in progress
NoCall ==
    /\ tables = <<>>
    /\ throwsOn = {}
    /\ Entry
    /\ calls = <<>>
    /\ heap = <<>>

InitSlice ==
    /\ NoCall
    /\ NoApp
    /\ store \in StoreStates
    /\ applied = <<>>
    /\ returned = <<>>

\* createSvelteRoomSlice(initialSlice)(store): store.update(...), then
\* return initialSlice
ApplySlice(initialSlice) ==
    /\ Len(applied) < MaxApplied
    /\ store' = Spread(store, initialSlice)
    /\ applied' = Append(applied, initialSlice)
    /\ returned' = initialSlice
    /\ UNCHANGED <<callVars, callsVars, appVars>>

NextSlice == \E initialSlice \in Slices : ApplySlice(initialSlice)

SpecSlice == InitSlice /\ [][NextSlice]_vars

(***************************************************************************)
(* C21 as stated: applying the factory of a slice replaces the config and  *)
(* the room of the store's state by those of the slice, leaves every other *)
(* top-level key of the state as it was, and returns the slice; so after   *)
(* several applications config and room are those of the last slice, the   *)
(* room whole (no field of an earlier room survives).  As stated it fails  *)
(* for a slice object that carries a further own key: the spread copies    *)
(* that key over the state's as well.                                      *)
(***************************************************************************)
\* the slice of the application that this step makes
SliceApplied == applied'[Len(applied')]

C21_OtherKeysUnchanged ==
    [][applied' # applied =>
          /\ store'.config = SliceApplied.config
          /\ store'.room = SliceApplied.room
          /\ returned' = SliceApplied
          /\ \A k \in DOMAIN store \ {"config", "room"} :
                 k \in DOMAIN store' /\ store'[k] = store[k]]_vars

(***************************************************************************)
(* C21: applying the factory of a slice gives every own key of the slice   *)
(* (config and room among them) the slice's value in the store's state,    *)
(* leaves every key of the state that the slice does not carry as it was,  *)
(* adds no other key, and returns the slice; so after several applications *)
(* config and room are those of the last slice applied, the room whole.    *)
(***************************************************************************)
C21_SliceKeysReplaced ==
    [][applied' # applied =>
          /\ {"config", "room"} \subseteq DOMAIN SliceApplied
          /\ store'.config = SliceApplied.config
          /\ store'.room = SliceApplied.room
          /\ DOMAIN store'.room = DOMAIN SliceApplied.room
          /\ \A k \in DOMAIN SliceApplied : store'[k] = SliceApplied[k]
          /\ returned' = SliceApplied
          /\ DOMAIN store' = DOMAIN store \cup DOMAIN SliceApplied
          /\ \A k \in DOMAIN store \ DOMAIN SliceApplied : store'[k] = store[k]]_vars

\* two slices applied to a store that has a key of its own; the first room
\* has a field that the second lacks
C21_Witness ==
    /\ Len(applied) = 2
    /\ "panel" \in DOMAIN store
    /\ store.panel = "open"
    /\ applied[1].config # applied[2].config
    /\ "tables" \in DOMAIN applied[1].room
    /\ "tables" \notin DOMAIN applied[2].room
    /\ store.config = applied[2].config
    /\ store.room = applied[2].room
    /\ returned = applied[2]

(***************************************************************************)
(* The component App.svelte of the svelte-minimal example.  roomStore is   *)
(* the state of the room store, isLoading, errorText (`error` in the       *)
(* source) and queryResult the component's variables, and runQuery[r] the  *)
(* position of the r-th call of runQuery: "await" while it waits for the   *)
(* promise, "returned" after the try block, "caught" after the catch       *)
(* block.  disabled is the button's attribute in the document; the         *)
(* document follows the variables when the component is flushed, in a      *)
(* microtask, and dirty says that a flush is pending.  Microtasks run      *)
(* before the next event or timer is handled.                              *)
(***************************************************************************)
\* how many times runQuery is called
MaxRuns == 4

\* createSvelteRoomStore({config: {...}, room: {isLoading: false, error: null}})
InitialRoomState ==
    [config |-> [title |-> "Svelte SQLRooms Example", dataSources |-> <<"earthquakes">>],
     room |-> [isLoading |-> FALSE, error |-> Null]]

\* the three rows of the simulated result
Rows == <<"California", "Alaska", "Nevada">>

\* what the awaited promise may be rejected with: an Error with a message,
\* or another value
Rejections ==
    { [isError |-> TRUE, message |-> "query failed"],
      [isError |-> FALSE, message |-> ""] }

\* err instanceof Error ? err.message : 'An error occurred'
ErrorMessage(err) == IF err.isError THEN err.message ELSE "An error occurred"

\* the calls of runQuery that wait for their promise
InFlight == {r \in 1..Len(runQuery) : runQuery[r] = "await"}

\* a button that takes clicks whatever isLoading is
ButtonAlwaysEnabled == FALSE

\* disabled={isLoading}: the attribute as the document has it
ButtonDisabled == disabled

\* the script up to the first mount: the variables' initial values, then the
\* reactive block `$:` copying the store's room into them
InitApp ==
    /\ NoCall
    /\ NoStore
    /\ roomStore = InitialRoomState
    /\ isLoading = roomStore.room.isLoading
    /\ errorText = roomStore.room.error
    /\ queryResult = <<>>
    /\ runQuery = <<>>
    /\ disabled = isLoading
    /\ dirty = FALSE
    /\ mounted = FALSE

\* runQuery up to its await
StartRunQuery ==
    /\ isLoading' = TRUE
    /\ errorText' = Null
    /\ runQuery' = Append(runQuery, "await")
    /\ dirty' = TRUE

\* onMount(() => { runQuery(); })
OnMount ==
    /\ ~mounted
    /\ mounted' = TRUE
    /\ StartRunQuery
    /\ UNCHANGED <<roomStore, queryResult, disabled, callVars, callsVars, sliceVars>>

\* on:click={runQuery}: a click on the button, which a disabled button does
\* not take
Click ==
    /\ mounted
    /\ ~dirty
    /\ ~ButtonDisabled
    /\ Len(runQuery) < MaxRuns
    /\ StartRunQuery
    /\ UNCHANGED <<roomStore, queryResult, disabled, mounted, callVars, callsVars, sliceVars>>

\* the component's update: the reactive block depends on $roomStore alone,
\* which has not changed, so only the document is brought up to date
Flush ==
    /\ dirty
    /\ disabled' = isLoading
    /\ dirty' = FALSE
    /\ UNCHANGED <<roomStore, isLoading, errorText, queryResult, runQuery, mounted,
                   callVars, callsVars, sliceVars>>

\* the awaited promise is resolved: the rest of the try block
AwaitResolves(r) ==
    /\ runQuery[r] = "await"
    /\ ~dirty
    /\ queryResult' = Rows
    /\ isLoading' = FALSE
    /\ runQuery' = [runQuery EXCEPT ![r] = "returned"]
    /\ dirty' = TRUE
    /\ UNCHANGED <<roomStore, errorText, disabled, mounted, callVars, callsVars, sliceVars>>

\* the awaited promise is rejected: the catch block
AwaitRejects(r, err) ==
    /\ runQuery[r] = "await"
    /\ ~dirty
    /\ errorText' = ErrorMessage(err)
    /\ isLoading' = FALSE
    /\ runQuery' = [runQuery EXCEPT ![r] = "caught"]
    /\ dirty' = TRUE
    /\ UNCHANGED <<roomStore, queryResult, disabled, mounted, callVars, callsVars, sliceVars>>

\* the promise of a waiting call is settled
Settle ==
    \E r \in DOMAIN runQuery :
        \/ AwaitResolves(r)
        \/ \E err \in Rejections : AwaitRejects(r, err)

NextApp == OnMount \/ Click \/ Flush \/ Settle

\* the component is mounted, pending microtasks run, and a promise that is
\* awaited is settled in the end
SpecApp ==
    /\ InitApp
    /\ [][NextApp]_vars
    /\ WF_vars(OnMount)
    /\ WF_vars(Flush)
    /\ WF_vars(Settle)

(***************************************************************************)
(* C22: in App.svelte, where runQuery is called by onMount and by a click  *)
(* on the button, at most one call of runQuery waits for its promise at    *)
(* any time; isLoading is true exactly while one does; the state of the    *)
(* room store stays what createSvelteRoomStore was given; and every call   *)
(* that is started ends, by the try block or by the catch block, in a      *)
(* state with isLoading = false.                                           *)
(***************************************************************************)
C22_OneRunQueryInFlight ==
    /\ [](/\ Cardinality(InFlight) <= 1
          /\ isLoading <=> InFlight # {}
          /\ roomStore = InitialRoomState)
    /\ \A r \in 1..MaxRuns :
           (r \in InFlight) ~>
               (/\ r \in DOMAIN runQuery
                /\ runQuery[r] \in {"returned", "caught"}
                /\ isLoading = FALSE)

\* a first call that returned, a second, started by a click, that failed,
\* and a third that is waiting, with the button disabled
C22_Witness ==
    /\ Len(runQuery) = 3
    /\ runQuery[1] = "returned"
    /\ runQuery[2] = "caught"
    /\ runQuery[3] = "await"
    /\ isLoading
    /\ disabled
    /\ ~dirty
    /\ errorText = Null
    /\ queryResult = Rows

====
